---- MODULE Spec2Model ----
(***************************************************************************)
(* Model of scripts/python/omniscript_discovery.py: one run of the         *)
(* command-line client (commands get, list, debug), the SalesforceClient   *)
(* methods it calls, load_credentials, and the JSON rendering written to   *)
(* the output file.                                                        *)
(*                                                                         *)
(* Text is a sequence of one-character strings.  A JSON value is a tagged  *)
(* record: null, bool, num, str (character sequence), arr (sequence of     *)
(* values), obj (sequence of <<key, value>> pairs in insertion order, as   *)
(* a Python dict keeps them).                                              *)
(***************************************************************************)
EXTENDS Integers, Sequences, FiniteSets, TLC

(***************************************************************************)
(* Bounds of the model.                                                    *)
(***************************************************************************)
MaxStrLen == 2      \* longest string drawn for a JSON string value
MaxArr == 2         \* longest array / most keys drawn for a container
MaxNum == 10        \* largest number drawn for a JSON number
MaxRecords == 3     \* most records in one query response
MaxCalls == 3       \* most method calls a direct caller of the client makes
MaxNameLen == 25    \* longest Name drawn for the table
MaxUniqueLen == 30  \* longest UniqueName drawn for the table
MaxIdLen == 20      \* longest Id drawn for the table
MaxRows == 2        \* most records in a query response drawn for the table

(***************************************************************************)
(* JSON values.                                                            *)
(***************************************************************************)
JNull == [t |-> "null"]
JBool(b) == [t |-> "bool", b |-> b]
JNum(n) == [t |-> "num", n |-> n]
JStr(s) == [t |-> "str", s |-> s]
JArr(a) == [t |-> "arr", a |-> a]
JObj(o) == [t |-> "obj", o |-> o]

Digits == <<"0", "1", "2", "3", "4", "5", "6", "7", "8", "9">>

IsDigit(c) == \E d \in 1..10 : Digits[d] = c

DigitVal(c) == (CHOOSE d \in 1..10 : Digits[d] = c) - 1

RECURSIVE NatStr(_)
NatStr(n) == IF n < 10 THEN <<Digits[n + 1]>>
             ELSE NatStr(n \div 10) \o <<Digits[(n % 10) + 1]>>

\* repr of a Python int, as json.dumps emits it
IntStr(n) == IF n < 0 THEN <<"-">> \o NatStr(0 - n) ELSE NatStr(n)

\* the backslash emitted as is
EscapeCharNoBackslash(c) ==
    CASE c = "\"" -> <<"\\", "\"">>
      [] c = "\n" -> <<"\\", "n">>
      [] c = "\t" -> <<"\\", "t">>
      [] OTHER -> <<c>>

\* json.encoder ESCAPE_DCT with ensure_ascii=False: only the quote, the
\* backslash and control characters are escaped, the rest is emitted as is
EscapeChar(c) ==
    CASE c = "\"" -> <<"\\", "\"">>
      [] c = "\\" -> <<"\\", "\\">>
      [] c = "\n" -> <<"\\", "n">>
      [] c = "\t" -> <<"\\", "t">>
      [] OTHER -> <<c>>

RECURSIVE EscapeAll(_)
EscapeAll(s) == IF s = <<>> THEN <<>>
                ELSE EscapeChar(Head(s)) \o EscapeAll(Tail(s))

EncodeStr(s) == <<"\"">> \o EscapeAll(s) \o <<"\"">>

RECURSIVE Spaces(_)
Spaces(n) == IF n = 0 THEN <<>> ELSE <<" ">> \o Spaces(n - 1)

\* json.dumps(indent=2): newline plus two spaces per nesting level;
\* json.dumps() without indent: nothing
NewlineIndent(pretty, level) ==
    IF pretty THEN <<"\n">> \o Spaces(2 * level) ELSE <<>>

\* item separator: "," (followed by the newline-indent) with indent=2,
\* ", " without
ItemSep(pretty, level) ==
    IF pretty THEN <<",">> \o NewlineIndent(pretty, level) ELSE <<",", " ">>

KeySep == <<":", " ">>

RECURSIVE Dumps(_, _, _)
RECURSIVE DumpItems(_, _, _)
RECURSIVE DumpPairs(_, _, _)

DumpItems(a, pretty, level) ==
    IF Len(a) = 1 THEN Dumps(a[1], pretty, level)
    ELSE Dumps(a[1], pretty, level) \o ItemSep(pretty, level)
         \o DumpItems(Tail(a), pretty, level)

DumpPairs(o, pretty, level) ==
    LET first == EncodeStr(o[1][1]) \o KeySep \o Dumps(o[1][2], pretty, level)
    IN IF Len(o) = 1 THEN first
       ELSE first \o ItemSep(pretty, level) \o DumpPairs(Tail(o), pretty, level)

\* json.dumps(v, indent=2, ensure_ascii=False) when pretty,
\* json.dumps(v, ensure_ascii=False) otherwise
Dumps(v, pretty, level) ==
    CASE v.t = "null" -> <<"n", "u", "l", "l">>
      [] v.t = "bool" -> IF v.b THEN <<"t", "r", "u", "e">>
                         ELSE <<"f", "a", "l", "s", "e">>
      [] v.t = "num" -> IntStr(v.n)
      [] v.t = "str" -> EncodeStr(v.s)
      [] v.t = "arr" ->
           IF v.a = <<>> THEN <<"[", "]">>
           ELSE <<"[">> \o NewlineIndent(pretty, level + 1)
                \o DumpItems(v.a, pretty, level + 1)
                \o NewlineIndent(pretty, level) \o <<"]">>
      [] v.t = "obj" ->
           IF v.o = <<>> THEN <<"{", "}">>
           ELSE <<"{">> \o NewlineIndent(pretty, level + 1)
                \o DumpPairs(v.o, pretty, level + 1)
                \o NewlineIndent(pretty, level) \o <<"}">>

json_dumps(v, pretty) == Dumps(v, pretty, 0)

(***************************************************************************)
(* json.loads: a parse result is [ok, val, pos], pos the index of the      *)
(* first character not consumed.                                           *)
(***************************************************************************)
Fail == [ok |-> FALSE, val |-> JNull, pos |-> 0]
Ok(v, p) == [ok |-> TRUE, val |-> v, pos |-> p]

IsWs(c) == c \in {" ", "\n", "\t", "\r"}

RECURSIVE SkipWs(_, _)
SkipWs(s, i) == IF i <= Len(s) /\ IsWs(s[i]) THEN SkipWs(s, i + 1) ELSE i

\* does the literal lit occur in s at position i
Matches(s, i, lit) ==
    /\ i + Len(lit) - 1 <= Len(s)
    /\ \A k \in 1..Len(lit) : s[i + k - 1] = lit[k]

\* py_scanstring, strict: i is the position after the opening quote
RECURSIVE ScanString(_, _, _)
ScanString(s, i, acc) ==
    IF i > Len(s) THEN Fail
    ELSE IF s[i] = "\"" THEN Ok(acc, i + 1)
    ELSE IF s[i] = "\\" THEN
        IF i + 1 > Len(s) THEN Fail
        ELSE CASE s[i + 1] = "\"" -> ScanString(s, i + 2, Append(acc, "\""))
               [] s[i + 1] = "\\" -> ScanString(s, i + 2, Append(acc, "\\"))
               [] s[i + 1] = "/" -> ScanString(s, i + 2, Append(acc, "/"))
               [] s[i + 1] = "n" -> ScanString(s, i + 2, Append(acc, "\n"))
               [] s[i + 1] = "t" -> ScanString(s, i + 2, Append(acc, "\t"))
               [] OTHER -> Fail
    ELSE IF s[i] \in {"\n", "\t", "\r"} THEN Fail
    ELSE ScanString(s, i + 1, Append(acc, s[i]))

RECURSIVE ScanDigits(_, _, _)
ScanDigits(s, i, acc) ==
    IF i <= Len(s) /\ IsDigit(s[i])
    THEN ScanDigits(s, i + 1, acc * 10 + DigitVal(s[i]))
    ELSE Ok(acc, i)

\* NUMBER_RE, integers only: -?(0|[1-9][0-9]*)
ScanNat(s, i) ==
    IF i > Len(s) \/ ~IsDigit(s[i]) THEN Fail
    ELSE IF s[i] = "0" THEN Ok(0, i + 1)
    ELSE ScanDigits(s, i, 0)

ScanNumber(s, i) ==
    IF s[i] = "-"
    THEN LET r == ScanNat(s, i + 1)
         IN IF r.ok THEN Ok(JNum(0 - r.val), r.pos) ELSE Fail
    ELSE LET r == ScanNat(s, i)
         IN IF r.ok THEN Ok(JNum(r.val), r.pos) ELSE Fail

RECURSIVE ScanValue(_, _)
RECURSIVE ScanArrayItems(_, _, _)
RECURSIVE ScanObjectPairs(_, _, _)

\* JSONArray after "[" and whitespace, the array known to be non-empty
ScanArrayItems(s, i, acc) ==
    LET r == ScanValue(s, i)
    IN IF ~r.ok THEN Fail
       ELSE LET j == SkipWs(s, r.pos)
                items == Append(acc, r.val)
            IN IF j > Len(s) THEN Fail
               ELSE IF s[j] = "]" THEN Ok(JArr(items), j + 1)
               ELSE IF s[j] = "," THEN ScanArrayItems(s, SkipWs(s, j + 1), items)
               ELSE Fail

\* a later pair with a key already seen replaces the value, as dict() does
PutPair(pairs, k, v) ==
    IF \E n \in 1..Len(pairs) : pairs[n][1] = k
    THEN [n \in 1..Len(pairs) |->
             IF pairs[n][1] = k THEN <<k, v>> ELSE pairs[n]]
    ELSE Append(pairs, <<k, v>>)

\* JSONObject after "{" and whitespace, the object known to be non-empty
ScanObjectPairs(s, i, acc) ==
    IF i > Len(s) \/ s[i] # "\"" THEN Fail
    ELSE LET k == ScanString(s, i + 1, <<>>)
         IN IF ~k.ok THEN Fail
            ELSE LET c == SkipWs(s, k.pos)
                 IN IF c > Len(s) \/ s[c] # ":" THEN Fail
                    ELSE LET r == ScanValue(s, SkipWs(s, c + 1))
                         IN IF ~r.ok THEN Fail
                            ELSE LET j == SkipWs(s, r.pos)
                                     pairs == PutPair(acc, k.val, r.val)
                                 IN IF j > Len(s) THEN Fail
                                    ELSE IF s[j] = "}"
                                         THEN Ok(JObj(pairs), j + 1)
                                    ELSE IF s[j] = ","
                                         THEN ScanObjectPairs(s, SkipWs(s, j + 1), pairs)
                                    ELSE Fail

\* scan_once
ScanValue(s, i) ==
    IF i > Len(s) THEN Fail
    ELSE CASE s[i] = "\"" ->
                LET r == ScanString(s, i + 1, <<>>)
                IN IF r.ok THEN Ok(JStr(r.val), r.pos) ELSE Fail
           [] s[i] = "{" ->
                LET j == SkipWs(s, i + 1)
                IN IF j <= Len(s) /\ s[j] = "}" THEN Ok(JObj(<<>>), j + 1)
                   ELSE ScanObjectPairs(s, j, <<>>)
           [] s[i] = "[" ->
                LET j == SkipWs(s, i + 1)
                IN IF j <= Len(s) /\ s[j] = "]" THEN Ok(JArr(<<>>), j + 1)
                   ELSE ScanArrayItems(s, j, <<>>)
           [] s[i] = "n" ->
                IF Matches(s, i, <<"n", "u", "l", "l">>)
                THEN Ok(JNull, i + 4) ELSE Fail
           [] s[i] = "t" ->
                IF Matches(s, i, <<"t", "r", "u", "e">>)
                THEN Ok(JBool(TRUE), i + 4) ELSE Fail
           [] s[i] = "f" ->
                IF Matches(s, i, <<"f", "a", "l", "s", "e">>)
                THEN Ok(JBool(FALSE), i + 5) ELSE Fail
           [] s[i] = "-" \/ IsDigit(s[i]) -> ScanNumber(s, i)
           [] OTHER -> Fail

\* json.loads(s) / response.json(): the whole text must be one value
json_loads(s) ==
    LET r == ScanValue(s, SkipWs(s, 1))
    IN IF ~r.ok THEN Fail
       ELSE IF SkipWs(s, r.pos) = Len(s) + 1 THEN r ELSE Fail

(***************************************************************************)
(* Python values other than JSON.                                          *)
(***************************************************************************)
None == "<None>"                \* os.getenv of an unset variable, an option not given
NoValue == [t |-> "unset"]      \* a variable not assigned yet
Running == 0 - 1                \* no exit status yet
NoSf == [none |-> TRUE]         \* self.sf = None
Session == [sf_instance |-> "na1.salesforce.com", session_id |-> "00Dxx!tok"]

\* truth value of a str-or-None (if not username, if output_path)
Falsy(v) == v = None \/ v = ""

\* truth value of a JSON value as Python computes it
Truthy(v) ==
    CASE v.t = "null" -> FALSE
      [] v.t = "bool" -> v.b
      [] v.t = "num" -> v.n # 0
      [] v.t = "str" -> v.s # <<>>
      [] v.t = "arr" -> v.a # <<>>
      [] v.t = "obj" -> v.o # <<>>

\* dict.get(key, default) on a JSON object
Get(obj, key, default) ==
    IF \E n \in 1..Len(obj.o) : obj.o[n][1] = key
    THEN obj.o[CHOOSE n \in 1..Len(obj.o) : obj.o[n][1] = key][2]
    ELSE default

(***************************************************************************)
(* The environment: <INSTANCE>_SF_USERNAME, _SF_PASSWORD, _SF_TOKEN and    *)
(* _SF_DOMAIN as os.getenv sees them after load_dotenv.                    *)
(***************************************************************************)
Instances == {"DEFAULT", "PROD"}

LightningDomain == "acme.lightning.force.com"

\* '.lightning.force.com' in domain
IsLightning(domain) == domain = LightningDomain

EnvOf(u, p, t, d) ==
    [username_key |-> u, password_key |-> p, token_key |-> t, domain_key |-> d]

DefaultEnvs ==
    { EnvOf("user@default", "pw-default", "tok-default", None),
      EnvOf("user@default", "pw-default", "tok-default", ""),
      EnvOf("user@default", "pw-default", "tok-default", LightningDomain),
      EnvOf(None, "pw-default", "tok-default", None),
      EnvOf("user@default", "", "tok-default", "test"),
      EnvOf("user@default", "pw-default", None, None) }

ProdEnvs ==
    { EnvOf(None, None, None, None),
      EnvOf("user@prod", "pw-prod", "tok-prod", "test") }

Environs ==
    { [i \in Instances |-> IF i = "DEFAULT" THEN d ELSE p] :
          d \in DefaultEnvs, p \in ProdEnvs }

(***************************************************************************)
(* load_credentials                                                        *)
(***************************************************************************)
\* os.getenv(domain_key, 'login')
GetenvDomain(env, inst) ==
    IF env[inst].domain_key = None THEN "login" ELSE env[inst].domain_key

\* the check of the token left out
MissingCredsNoToken(env, inst) ==
    (IF Falsy(env[inst].username_key) THEN <<<<inst, "username_key">>>> ELSE <<>>)
    \o (IF Falsy(env[inst].password_key) THEN <<<<inst, "password_key">>>> ELSE <<>>)

\* missing_creds: the keys appended, in order
MissingCreds(env, inst) ==
    (IF Falsy(env[inst].username_key) THEN <<<<inst, "username_key">>>> ELSE <<>>)
    \o (IF Falsy(env[inst].password_key) THEN <<<<inst, "password_key">>>> ELSE <<>>)
    \o (IF Falsy(env[inst].token_key) THEN <<<<inst, "token_key">>>> ELSE <<>>)

\* the dictionary returned
LoadedCredentials(env, inst) ==
    [username |-> env[inst].username_key,
     password |-> env[inst].password_key,
     security_token |-> env[inst].token_key,
     domain |-> GetenvDomain(env, inst)]

NoCredentials ==
    [username |-> None, password |-> None, security_token |-> None,
     domain |-> None]

(***************************************************************************)
(* What the server can answer.                                             *)
(***************************************************************************)
Chars == {"a", "n", "\"", "\\", "\n"}

Strings == UNION {[1..n -> Chars] : n \in 0..MaxStrLen}

Keys == {<<"k">>, <<"\\", "\"">>}

\* the values nested inside the containers
Elems ==
    { JNull, JBool(TRUE), JNum(7), JStr(<<"\"", "\\">>), JArr(<<>>),
      JObj(<<<<<<"k">>, JNum(0)>>>>) }

Arrays == {JArr(a) : a \in UNION {[1..n -> Elems] : n \in 0..MaxArr}}

Objects ==
    {JObj(o) : o \in
        { p \in UNION {[1..n -> Keys \X Elems] : n \in 0..MaxArr} :
            \A i, j \in 1..Len(p) : i # j => p[i][1] # p[j][1] }}

StructurePool ==
    {JNull, JBool(TRUE), JBool(FALSE)} \cup {JNum(n) : n \in (0 - 1)..MaxNum}
    \cup {JStr(s) : s \in Strings} \cup Arrays \cup Objects

\* body texts that are not JSON
GarbageBodies == {<<>>, <<"<">>, <<"{">>}

OkBodies == {json_dumps(v, FALSE) : v \in StructurePool} \cup GarbageBodies

ErrorStatuses == {302, 404, 500}

ErrorBodies == {<<"[", "]">>, <<"<">>}

\* one HTTP exchange: a response, or an exception raised by the call
Response(status, body) == [exc |-> FALSE, status |-> status, body |-> body]
Raised == [exc |-> TRUE, status |-> 0, body |-> <<>>]

GetOutcomes ==
    {Response(200, b) : b \in OkBodies}
    \cup {Response(s, b) : s \in ErrorStatuses, b \in ErrorBodies}
    \cup {Raised}

\* OmniProcess records: Id, Name, VersionNumber, IsActive
IdKey == <<"I", "d">>
NameKey == <<"N", "a", "m", "e">>
VersionKey == <<"V", "e", "r", "s", "i", "o", "n", "N", "u", "m", "b", "e", "r">>
IsActiveKey == <<"I", "s", "A", "c", "t", "i", "v", "e">>
UniqueNameKey == <<"U", "n", "i", "q", "u", "e", "N", "a", "m", "e">>

\* the names, in ascending order
Names == <<(<<"A">>), (<<"B", "\"">>)>>

Versions == {1, 2}

Record(n, v, act) ==
    JObj(<< <<IdKey, JStr(<<"0", "j">> \o IntStr(n) \o IntStr(v))>>,
            <<NameKey, JStr(Names[n])>>,
            <<VersionKey, JNum(v)>>,
            <<IsActiveKey, JBool(act)>> >>)

\* a record whose IsActive is not in the mapping
RecordNoActive ==
    JObj(<< <<IdKey, JStr(<<"0", "j", "0">>)>>,
            <<NameKey, JStr(Names[1])>>,
            <<VersionKey, JNum(1)>> >>)

RecordPool ==
    {Record(n, v, act) : n \in 1..Len(Names), v \in Versions, act \in BOOLEAN}
    \cup {RecordNoActive}

NameRank(r) == CHOOSE n \in 1..Len(Names) : Names[n] = Get(r, NameKey, JNull).s

\* ORDER BY Name, VersionNumber DESC
Ordered(recs) ==
    \A i, j \in 1..Len(recs) :
        i < j =>
            \/ NameRank(recs[i]) < NameRank(recs[j])
            \/ /\ NameRank(recs[i]) = NameRank(recs[j])
               /\ Get(recs[i], VersionKey, JNull).n >= Get(recs[j], VersionKey, JNull).n

\* what the server answers to the query: distinct rows, in the order asked
QueryResponses ==
    { r \in UNION {[1..n -> RecordPool] : n \in 0..MaxRecords} :
        /\ \A i, j \in 1..Len(r) : i # j => r[i] # r[j]
        /\ Ordered(r) }

(***************************************************************************)
(* State of one run.                                                       *)
(***************************************************************************)
VARIABLES
    cmd,            \* the command: "get", "list", "debug"; "client" for a
                    \* caller that uses SalesforceClient directly
    instance,       \* --instance
    opts,           \* the other options of the command line
    env_file,       \* whether the .env file exists
    environ,        \* the environment after load_dotenv
    fs,             \* the file at the output path
    pc,             \* position of the run
    credentials,    \* the dictionary load_credentials returned
    sf,             \* client.sf
    net,            \* the network calls issued so far, with their outcomes
    structure,      \* get: the value get_omniscript_structure returned
    processes,      \* list: the variable processes
    json_output,    \* the JSON text rendered and echoed
    reports,        \* the messages reported so far
    exit_code,      \* exit status of the process, Running until it exits
    raised,         \* the exception that left a client method uncaught
    attempt,        \* debug: index of the next approach / header variation
    calls           \* number of method calls made by a direct caller

vars == <<cmd, instance, opts, env_file, environ, fs, pc, credentials, sf,
          net, structure, processes, json_output, reports, exit_code, raised,
          attempt, calls>>

inputs == <<cmd, instance, opts, env_file, environ>>

OutputPath == "out/omniscript.json"

NoFile == [kind |-> "none"]
TextFile(text) == [kind |-> "text", text |-> text]
TableFile(rows) == [kind |-> "table", rows |-> rows]
OldFile == TextFile(<<"o", "l", "d">>)

OptsOf(c) ==
    [output_path : IF c = "debug" THEN {None} ELSE {None, "", OutputPath},
     pretty : IF c = "get" THEN BOOLEAN ELSE {TRUE},
     active_only : IF c = "list" THEN BOOLEAN ELSE {FALSE},
     format : IF c = "list" THEN {"table", "json"} ELSE {"table"},
     raw_request : IF c = "debug" THEN BOOLEAN ELSE {FALSE}]

Commands == {"get", "list", "debug"}

\* the instance selected and the environment of a run
Runs ==
    {<<"DEFAULT", e>> : e \in Environs}
    \cup {<<"PROD", e>> : e \in {x \in Environs :
                                   x["DEFAULT"].domain_key = None}}

\* the file at the output path before the run: with no path there is none
FilesBefore(o) ==
    IF Falsy(o.output_path) THEN {NoFile} ELSE {NoFile, OldFile}

Init ==
    /\ cmd \in Commands
    /\ \E run \in Runs : instance = run[1] /\ environ = run[2]
    /\ opts \in OptsOf(cmd)
    /\ env_file \in BOOLEAN
    /\ fs \in FilesBefore(opts)
    /\ pc = "start"
    /\ credentials = NoCredentials
    /\ sf = NoSf
    /\ net = <<>>
    /\ structure = NoValue
    /\ processes = NoValue
    /\ json_output = NoValue
    /\ reports = <<>>
    /\ exit_code = Running
    /\ raised = None
    /\ attempt = 0
    /\ calls = 0

(***************************************************************************)
(* Ends of a run.                                                          *)
(***************************************************************************)
Report(kind) == [kind |-> kind]

ExitWith(code, messages) ==
    /\ reports' = reports \o messages
    /\ exit_code' = code
    /\ pc' = "exited"

\* click.echo(..., err=True); sys.exit(1)
SysExit(report) == ExitWith(1, <<report>>)

\* the command function returns; the interpreter exits with status 0
Return(report) == ExitWith(0, <<report>>)

\* an exception leaves a client method: a direct caller gets it, in a
\* command nothing catches it and the interpreter exits with status 1
Raise(exception) ==
    /\ raised' = exception
    /\ IF cmd = "client"
       THEN UNCHANGED <<reports, exit_code, pc>>
       ELSE ExitWith(1, <<Report("traceback")>>)

\* the call issued again after the first attempt
IssueTwice(log, call) == Append(Append(log, call), call)

\* the network call issued, appended to the log
Issue(log, call) == Append(log, call)

(***************************************************************************)
(* The commands up to connect (get 262-277, list 347-362, debug 491-501)   *)
(***************************************************************************)
CheckEnvFile ==
    /\ pc = "start"
    /\ IF ~env_file
       THEN SysExit(Report("env_file_not_found"))
       ELSE /\ pc' = "load"
            /\ UNCHANGED <<reports, exit_code>>
    /\ UNCHANGED <<inputs, fs, credentials, sf, net, structure, processes,
                   json_output, raised, attempt, calls>>

\* load_credentials, then SalesforceClient(**credentials)
LoadCredentials ==
    /\ pc = "load"
    /\ IF MissingCreds(environ, instance) # <<>>
       THEN /\ SysExit([kind |-> "missing_credentials",
                        keys |-> MissingCreds(environ, instance)])
            /\ UNCHANGED credentials
       ELSE /\ credentials' = LoadedCredentials(environ, instance)
            /\ pc' = "connect"
            /\ UNCHANGED <<reports, exit_code>>
    /\ UNCHANGED <<inputs, fs, sf, net, structure, processes, json_output,
                   raised, attempt, calls>>

(***************************************************************************)
(* SalesforceClient.connect                                                *)
(***************************************************************************)
AuthOutcomes == {"ok", "SalesforceAuthenticationFailed", "Exception"}

AuthCall(creds, outcome) ==
    [kind |-> "auth",
     via |-> IF IsLightning(creds.domain) THEN "instance_url" ELSE "domain",
     username |-> creds.username,
     outcome |-> outcome]

\* the handler of Exception reports the failure and lets connect return
ConnectEndsSwallowed(outcome) ==
    CASE outcome = "ok" -> "returns"
      [] outcome = "SalesforceAuthenticationFailed" -> "authentication_failed"
      [] outcome = "Exception" -> "returns"

\* how connect ends for an outcome of Salesforce(...): it returns, or it
\* reports the named failure and calls sys.exit(1)
ConnectEnds(outcome) ==
    CASE outcome = "ok" -> "returns"
      [] outcome = "SalesforceAuthenticationFailed" -> "authentication_failed"
      [] outcome = "Exception" -> "connection_failed"

\* next: where the caller goes on when connect returns
connect(next) ==
    \E outcome \in AuthOutcomes :
        /\ net' = Issue(net, AuthCall(credentials, outcome))
        /\ IF ConnectEnds(outcome) = "returns"
           THEN /\ sf' = IF outcome = "ok" THEN Session ELSE sf
                /\ pc' = next
                /\ UNCHANGED <<reports, exit_code>>
           ELSE /\ SysExit(Report(ConnectEnds(outcome)))
                /\ UNCHANGED sf

AfterConnect ==
    CASE cmd = "get" -> "fetch"
      [] cmd = "list" -> "query"
      [] cmd = "debug" -> "approach"

Connect ==
    /\ pc = "connect"
    /\ connect(AfterConnect)
    /\ attempt' = IF cmd = "debug" THEN 1 ELSE attempt
    /\ UNCHANGED <<inputs, fs, credentials, structure, processes, json_output,
                   raised, calls>>

(***************************************************************************)
(* SalesforceClient.get_omniscript_structure                               *)
(***************************************************************************)
\* the guard left out
NotConnectedNever(s) == FALSE

\* if not self.sf
NotConnected(s) == s = NoSf

\* every status below 400 taken for success
StatusOkBelow400(status) == status < 400

\* response.status_code == 200
StatusOk(status) == status = 200

\* SalesforceError is the class of simple_salesforce; built here from one
\* message argument, the construction either yields the exception, which
\* the handler of SalesforceError reports, or itself raises (TypeError),
\* which the handler of Exception reports
ApiErrorReports(r) ==
    { [kind |-> "salesforce_api_error", status |-> r.status, body |-> r.body],
      Report("unexpected_error") }

GetCall(r) ==
    [kind |-> "get", headers |-> "workbench", exc |-> r.exc,
     status |-> r.status, body |-> r.body]

get_omniscript_structure(outcomes, next) ==
    IF NotConnected(sf)
    THEN /\ Raise("RuntimeError")
         /\ UNCHANGED <<net, structure>>
    ELSE \E r \in outcomes :
        /\ net' = Issue(net, GetCall(r))
        /\ IF r.exc
           THEN \* requests.get raised
                /\ SysExit(Report("unexpected_error"))
                /\ UNCHANGED <<structure, raised>>
           ELSE IF StatusOk(r.status)
           THEN IF json_loads(r.body).ok
                THEN /\ structure' = json_loads(r.body).val
                     /\ pc' = next
                     /\ UNCHANGED <<reports, exit_code, raised>>
                ELSE \* response.json() raised
                     /\ SysExit(Report("unexpected_error"))
                     /\ UNCHANGED <<structure, raised>>
           ELSE /\ \E report \in ApiErrorReports(r) : SysExit(report)
                /\ UNCHANGED <<structure, raised>>

(***************************************************************************)
(* SalesforceClient.list_omniscript_processes                              *)
(***************************************************************************)
QueryOutcomes ==
    {[exc |-> "none", records |-> r] : r \in QueryResponses}
    \cup {[exc |-> "SalesforceError", records |-> <<>>],
          [exc |-> "Exception", records |-> <<>>]}

QueryCall(r) ==
    [kind |-> "query", order_by |-> <<"Name", "VersionNumber DESC">>,
     exc |-> r.exc, records |-> r.records]

RECURSIVE Reverse(_)
Reverse(q) == IF q = <<>> THEN <<>> ELSE Append(Reverse(Tail(q)), Head(q))

\* the records handed back in the opposite order
QueryResultReversed(response) == Reverse(response.records)

\* result['records']
QueryResult(response) == response.records

list_omniscript_processes(outcomes, next) ==
    IF NotConnected(sf)
    THEN /\ Raise("RuntimeError")
         /\ UNCHANGED <<net, processes>>
    ELSE \E r \in outcomes :
        /\ net' = Issue(net, QueryCall(r))
        /\ CASE r.exc = "none" ->
                  /\ processes' = JArr(QueryResult(r))
                  /\ pc' = next
                  /\ UNCHANGED <<reports, exit_code, raised>>
             [] r.exc = "SalesforceError" ->
                  /\ SysExit(Report("salesforce_api_error"))
                  /\ UNCHANGED <<processes, raised>>
             [] r.exc = "Exception" ->
                  /\ SysExit(Report("unexpected_error"))
                  /\ UNCHANGED <<processes, raised>>

(***************************************************************************)
(* Writing the output file (get 295-306, list 388-399, table 453-469)      *)
(***************************************************************************)
\* "ok"; "open_failed": mkdir or open raised; "write_failed": the file was
\* opened for writing, hence truncated, and write raised
WriteOutcomes == {"ok", "open_failed", "write_failed"}

FileAfter(w, content, old) ==
    CASE w = "ok" -> content
      [] w = "open_failed" -> old
      [] w = "write_failed" -> TextFile(<<>>)

\* did the try block raise, so that the handler calls sys.exit(1)
WriteFails(w) == w # "ok"

\* the tail shared by the output steps: write content when an output path
\* was given, then end the command with the success message
WriteAndFinish(content, success) ==
    IF Falsy(opts.output_path)
    THEN /\ Return(Report(success))
         /\ UNCHANGED fs
    ELSE \E w \in WriteOutcomes :
        /\ fs' = FileAfter(w, content, fs)
        /\ IF WriteFails(w)
           THEN SysExit(Report("write_failed"))
           ELSE ExitWith(0, <<Report("saved"), Report(success)>>)

(***************************************************************************)
(* Command get (279-308)                                                   *)
(***************************************************************************)
GetStructure ==
    /\ pc = "fetch"
    /\ get_omniscript_structure(GetOutcomes, "output")
    /\ UNCHANGED <<inputs, fs, credentials, sf, processes, json_output,
                   attempt, calls>>

GetOutput ==
    /\ pc = "output"
    /\ cmd = "get"
    /\ json_output' = json_dumps(structure, opts.pretty)
    /\ WriteAndFinish(TextFile(json_dumps(structure, opts.pretty)),
                      "structure_retrieved")
    /\ UNCHANGED <<inputs, credentials, sf, net, structure, processes, raised,
                   attempt, calls>>

(***************************************************************************)
(* Command list (364-404) and display_processes_table                      *)
(***************************************************************************)
ListProcesses ==
    /\ pc = "query"
    /\ list_omniscript_processes(QueryOutcomes, "filter")
    /\ UNCHANGED <<inputs, fs, credentials, sf, structure, json_output,
                   attempt, calls>>

\* the condition of the comprehension negated
FilterActiveNegated(recs) ==
    SelectSeq(recs, LAMBDA p : ~Truthy(Get(p, IsActiveKey, JBool(FALSE))))

\* [p for p in processes if p.get('IsActive', False)]
FilterActive(recs) ==
    SelectSeq(recs, LAMBDA p : Truthy(Get(p, IsActiveKey, JBool(FALSE))))

\* the check for an empty list left out
NoProcessesIgnored(kept) == FALSE

\* if not processes
NoProcesses(kept) == kept = <<>>

ListFilter ==
    /\ pc = "filter"
    /\ LET kept == IF opts.active_only THEN FilterActive(processes.a)
                   ELSE processes.a
       IN /\ processes' = JArr(kept)
          /\ IF NoProcesses(kept)
             THEN Return(Report("no_processes_found"))
             ELSE /\ pc' = "output"
                  /\ UNCHANGED <<reports, exit_code>>
    /\ UNCHANGED <<inputs, fs, credentials, sf, net, structure, json_output,
                   raised, attempt, calls>>

NA == <<"N", "/", "A">>

\* str() of a field value; the fields read hold strings, numbers, booleans
\* or null
Str(v) ==
    CASE v.t = "str" -> v.s
      [] v.t = "num" -> IntStr(v.n)
      [] v.t = "bool" -> IF v.b THEN <<"T", "r", "u", "e">>
                         ELSE <<"F", "a", "l", "s", "e">>
      [] v.t = "null" -> <<"N", "o", "n", "e">>

\* text[:n]
Prefix(text, n) == SubSeq(text, 1, IF Len(text) < n THEN Len(text) ELSE n)

\* the comparison taken one too early
TruncateFromLimit(text, limit, keep) ==
    IF Len(text) >= limit THEN Prefix(text, keep) \o <<".", ".", ".">>
    ELSE text

\* if len(text) > limit: text = text[:keep] + "..."
Truncate(text, limit, keep) ==
    IF Len(text) > limit THEN Prefix(text, keep) \o <<".", ".", ".">>
    ELSE text

\* the cells given to table.add_row
TableRow(p) ==
    [name |-> Truncate(Str(Get(p, NameKey, JStr(NA))), 23, 20),
     version |-> Str(Get(p, VersionKey, JStr(NA))),
     active |-> Truthy(Get(p, IsActiveKey, JBool(FALSE))),
     unique_name |-> Truncate(Str(Get(p, UniqueNameKey, JStr(NA))), 28, 25),
     id |-> Prefix(Str(Get(p, IdKey, JStr(NA))), 18)]

TableRows(recs) == [n \in 1..Len(recs) |-> TableRow(recs[n])]

ListOutput ==
    /\ pc = "output"
    /\ cmd = "list"
    /\ IF opts.format = "json"
       THEN /\ json_output' = json_dumps(processes, TRUE)
            /\ WriteAndFinish(TextFile(json_dumps(processes, TRUE)),
                              "processes_retrieved")
       ELSE /\ UNCHANGED json_output
            /\ WriteAndFinish(TableFile(TableRows(processes.a)),
                              "processes_retrieved")
    /\ UNCHANGED <<inputs, credentials, sf, net, structure, processes, raised,
                   attempt, calls>>

(***************************************************************************)
(* Command debug (503-551) and try_raw_requests                            *)
(***************************************************************************)
NumApproaches == 4
NumVariations == 3

\* what one attempt can meet: 200 with a JSON object, 200 with JSON that is
\* not an object, a non-200 status, an exception raised by the call
DebugOutcomes ==
    { Response(200, json_dumps(JObj(<<<<<<"k">>, JNum(0)>>>>), FALSE)),
      Response(200, <<"[", "]">>),
      Response(404, <<"[", "]">>),
      Raised }

\* the body of the try block of one attempt ends in the return statement:
\* status 200, response.json() parses and the result has keys()
AttemptReturns(r) ==
    /\ ~r.exc
    /\ r.status = 200
    /\ json_loads(r.body).ok
    /\ json_loads(r.body).val.t = "obj"

\* what the attempt echoes when it does not return
AttemptLog(r, n) ==
    IF r.exc THEN <<[kind |-> "exception", n |-> n]>>
    ELSE IF r.status = 200
    THEN <<[kind |-> "success", n |-> n], [kind |-> "exception", n |-> n]>>
    ELSE <<[kind |-> "failed_with_status", n |-> n]>>

DebugCall(kind, n, r) ==
    [kind |-> kind, n |-> n, exc |-> r.exc, status |-> r.status,
     body |-> r.body]

Hints == <<Report("try_checking")>>

DebugApproach ==
    /\ pc = "approach"
    /\ \E r \in DebugOutcomes :
        /\ net' = Issue(net, DebugCall("restful", attempt, r))
        /\ IF AttemptReturns(r)
           THEN /\ ExitWith(0, <<[kind |-> "success", n |-> attempt]>>)
                /\ UNCHANGED attempt
           ELSE IF attempt < NumApproaches
           THEN /\ attempt' = attempt + 1
                /\ reports' = reports \o AttemptLog(r, attempt)
                /\ UNCHANGED <<pc, exit_code>>
           ELSE IF opts.raw_request
           THEN /\ attempt' = 1
                /\ pc' = "raw"
                /\ reports' = reports \o AttemptLog(r, attempt)
                                \o <<Report("all_approaches_failed")>>
                /\ UNCHANGED exit_code
           ELSE /\ ExitWith(0, AttemptLog(r, attempt)
                                \o <<Report("all_approaches_failed")>> \o Hints)
                /\ UNCHANGED attempt
    /\ UNCHANGED <<inputs, fs, credentials, sf, structure, processes,
                   json_output, raised, calls>>

\* one header variation of try_raw_requests; when the function returns,
\* debug goes on to its hints and returns
RawRequest ==
    /\ pc = "raw"
    /\ \E r \in DebugOutcomes :
        /\ net' = Issue(net, DebugCall("raw", attempt, r))
        /\ IF AttemptReturns(r)
           THEN /\ ExitWith(0, <<[kind |-> "success", n |-> attempt]>> \o Hints)
                /\ UNCHANGED attempt
           ELSE IF attempt < NumVariations
           THEN /\ attempt' = attempt + 1
                /\ reports' = reports \o AttemptLog(r, attempt)
                /\ UNCHANGED <<pc, exit_code>>
           ELSE /\ ExitWith(0, AttemptLog(r, attempt)
                                \o <<Report("all_raw_failed")>> \o Hints)
                /\ UNCHANGED attempt
    /\ UNCHANGED <<inputs, fs, credentials, sf, structure, processes,
                   json_output, raised, calls>>

Next ==
    \/ CheckEnvFile
    \/ LoadCredentials
    \/ Connect
    \/ GetStructure
    \/ GetOutput
    \/ ListProcesses
    \/ ListFilter
    \/ ListOutput
    \/ DebugApproach
    \/ RawRequest

Spec == Init /\ [][Next]_vars

(***************************************************************************)
(* A caller that uses SalesforceClient directly: after the constructor it  *)
(* calls connect, get_omniscript_structure and list_omniscript_processes   *)
(* in any order.                                                           *)
(***************************************************************************)
ClientGetOutcomes ==
    { Response(200, json_dumps(JObj(<<<<<<"k">>, JNum(0)>>>>), FALSE)),
      Response(200, <<"<">>),
      Response(404, <<"[", "]">>),
      Raised }

ClientQueryOutcomes ==
    { [exc |-> "none", records |-> <<>>],
      [exc |-> "none",
       records |-> <<Record(1, 2, TRUE), Record(1, 1, FALSE)>>],
      [exc |-> "SalesforceError", records |-> <<>>] }

InitClient ==
    /\ cmd = "client"
    /\ \E run \in {r \in Runs : MissingCreds(r[2], r[1]) = <<>>} :
           instance = run[1] /\ environ = run[2]
    /\ opts = [output_path |-> None, pretty |-> TRUE, active_only |-> FALSE,
               format |-> "table", raw_request |-> FALSE]
    /\ env_file = TRUE
    /\ fs = NoFile
    /\ pc = "caller"
    /\ credentials = LoadedCredentials(environ, instance)
    /\ sf = NoSf
    /\ net = <<>>
    /\ structure = NoValue
    /\ processes = NoValue
    /\ json_output = NoValue
    /\ reports = <<>>
    /\ exit_code = Running
    /\ raised = None
    /\ attempt = 0
    /\ calls = 0

CallConnect ==
    /\ pc = "caller"
    /\ calls < MaxCalls
    /\ calls' = calls + 1
    /\ connect("caller")
    /\ UNCHANGED <<inputs, fs, credentials, structure, processes, json_output,
                   raised, attempt>>

CallGetStructure ==
    /\ pc = "caller"
    /\ calls < MaxCalls
    /\ calls' = calls + 1
    /\ get_omniscript_structure(ClientGetOutcomes, "caller")
    /\ UNCHANGED <<inputs, fs, credentials, sf, processes, json_output,
                   attempt>>

CallListProcesses ==
    /\ pc = "caller"
    /\ calls < MaxCalls
    /\ calls' = calls + 1
    /\ list_omniscript_processes(ClientQueryOutcomes, "caller")
    /\ UNCHANGED <<inputs, fs, credentials, sf, structure, json_output,
                   attempt>>

NextClient ==
    \/ CallConnect
    \/ CallGetStructure
    \/ CallListProcesses

SpecClient == InitClient /\ [][NextClient]_vars

(***************************************************************************)
(* Properties.                                                             *)
(***************************************************************************)
CallsOf(kinds) == {i \in 1..Len(net) : net[i].kind \in kinds}

LastReportIn(kinds) ==
    reports # <<>> /\ reports[Len(reports)].kind \in kinds

\* a required variable of the selected instance is unset or empty
MissingRequired ==
    \/ Falsy(environ[instance].username_key)
    \/ Falsy(environ[instance].password_key)
    \/ Falsy(environ[instance].token_key)

\* C1: in get, list and debug, when a required credential of the selected
\* instance is missing, no authentication call and no request is ever
\* issued, and once the configuration has been checked the command has
\* reported a configuration error and exited with status 1.
C1_ConfigErrorBeforeNetwork ==
    MissingRequired =>
        /\ net = <<>>
        /\ sf = NoSf
        /\ pc \notin {"start", "load"} =>
              /\ pc = "exited"
              /\ exit_code = 1
              /\ LastReportIn({"env_file_not_found", "missing_credentials"})

C1_Witness ==
    /\ cmd = "debug"
    /\ env_file
    /\ Falsy(environ[instance].token_key)
    /\ pc = "exited"
    /\ exit_code = 1
    /\ LastReportIn({"missing_credentials"})

\* C2 as stated: on status 200 the parsed body is returned; on any other
\* status no value is returned and an API error (SalesforceError) leaves
\* get_omniscript_structure to its caller.
C2_RaisesApiErrorToCaller ==
    \A i \in CallsOf({"get"}) :
        ~net[i].exc =>
            IF net[i].status = 200
            THEN json_loads(net[i].body).ok =>
                     structure = json_loads(net[i].body).val
            ELSE structure = NoValue /\ raised = "SalesforceError"

\* C2 amended: get_omniscript_structure returns exactly the parsed body
\* when the status is 200 and the body parses as JSON; in every other case
\* (another status, a body that does not parse, an exception of the
\* request) it returns no value and lets no exception reach its caller: it
\* reports an error and ends the process with exit status 1.
C2_ReturnsBodyOrExits ==
    \A i \in CallsOf({"get"}) :
        IF ~net[i].exc /\ net[i].status = 200 /\ json_loads(net[i].body).ok
        THEN structure = json_loads(net[i].body).val /\ raised = None
        ELSE /\ structure = NoValue
             /\ raised = None
             /\ pc = "exited"
             /\ exit_code = 1
             /\ LastReportIn({"salesforce_api_error", "unexpected_error"})

C2_Witness ==
    /\ cmd = "get"
    /\ \E i \in CallsOf({"get"}) : ~net[i].exc /\ net[i].status = 404
    /\ pc = "exited"
    /\ exit_code = 1
    /\ structure = NoValue

\* did this network call fail
Failed(call) ==
    CASE call.kind = "auth" -> call.outcome # "ok"
      [] call.kind = "get" ->
           call.exc \/ call.status # 200 \/ ~json_loads(call.body).ok
      [] call.kind = "query" -> call.exc # "none"
      [] call.kind \in {"restful", "raw"} -> call.exc \/ call.status # 200

ConfigurationErrorOccurred ==
    \/ pc # "start" /\ ~env_file
    \/ pc \notin {"start", "load"} /\ MissingRequired

\* what the output step of get and list was to put into the file
RenderedFile ==
    CASE cmd = "get" -> TextFile(json_dumps(structure, opts.pretty))
      [] cmd = "list" /\ opts.format = "json" ->
           TextFile(json_dumps(processes, TRUE))
      [] cmd = "list" /\ opts.format = "table" ->
           TableFile(TableRows(processes.a))

\* the run ended in or after its output step
OutputStepDone ==
    /\ pc = "exited"
    /\ \/ cmd = "get" /\ structure # NoValue
       \/ cmd = "list" /\ processes # NoValue /\ processes.a # <<>>

\* an output path was given and the file does not hold the output
WriteErrorOccurred ==
    /\ OutputStepDone
    /\ ~Falsy(opts.output_path)
    /\ fs # RenderedFile

ErrorReports ==
    {"env_file_not_found", "missing_credentials", "authentication_failed",
     "connection_failed", "salesforce_api_error", "unexpected_error",
     "write_failed"}

\* C3 as stated: in every command, once an error of any kind has occurred
\* (configuration, authentication, connection, failed request, file write)
\* the command has reported it and exited with a non-zero status.
C3_AllErrorsTerminal ==
    (\/ ConfigurationErrorOccurred
     \/ WriteErrorOccurred
     \/ \E i \in 1..Len(net) : Failed(net[i]))
    => /\ pc = "exited"
       /\ exit_code # 0
       /\ LastReportIn(ErrorReports)

\* the errors that end a command: everything but a failed attempt of debug
TerminalErrorOccurred ==
    \/ ConfigurationErrorOccurred
    \/ WriteErrorOccurred
    \/ \E i \in CallsOf({"auth", "get", "query"}) : Failed(net[i])

\* C3 amended: a missing configuration, an authentication or connection
\* failure, a failed discovery GET or query and a file-write failure are
\* terminal in every command: the command reports the error and exits with
\* status 1.  A failed attempt of debug (non-200 status or exception) is
\* logged and not terminal; a run in which none of the terminal errors
\* occurred, debug with failed attempts included, exits with status 0.
C3_TerminalErrorsExitNonZero ==
    /\ TerminalErrorOccurred =>
          pc = "exited" /\ exit_code = 1 /\ LastReportIn(ErrorReports)
    /\ (pc = "exited" /\ ~TerminalErrorOccurred) => exit_code = 0

C3_Witness ==
    /\ cmd = "list"
    /\ opts.format = "table"
    /\ WriteErrorOccurred
    /\ exit_code = 1
    /\ LastReportIn({"write_failed"})

\* a successful connect precedes position i of the log
SessionEstablishedBefore(i) ==
    \E j \in 1..(i - 1) : net[j].kind = "auth" /\ net[j].outcome = "ok"

C4_Inv ==
    /\ \A i \in CallsOf({"get", "query"}) : SessionEstablishedBefore(i)
    /\ sf = Session <=> SessionEstablishedBefore(Len(net) + 1)
    /\ \A j \in CallsOf({"auth"}) :
           net[j].outcome # "ok" =>
               j = Len(net) /\ pc = "exited" /\ exit_code = 1

C4_Step ==
    sf = NoSf =>
        \/ /\ net' = net
           /\ raised' = "RuntimeError"
           /\ UNCHANGED <<sf, structure, processes>>
        \/ /\ Len(net') = Len(net) + 1
           /\ net'[Len(net')].kind = "auth"

\* C4: for any order in which connect, get_omniscript_structure and
\* list_omniscript_processes are called on a client: every discovery GET
\* and every query in the log comes after a successful connect; connect
\* leaves the session set exactly when it succeeded and otherwise has ended
\* the process with status 1; and a call of get_omniscript_structure or
\* list_omniscript_processes on a client without session raises
\* RuntimeError, issues no request and returns nothing.
C4_SessionBeforeRequest == []C4_Inv /\ [][C4_Step]_vars

C4_Witness ==
    /\ cmd = "client"
    /\ sf = NoSf
    /\ raised = "RuntimeError"
    /\ net = <<>>
    /\ calls = 2
    /\ structure = NoValue
    /\ processes = NoValue

\* the mapping holds IsActive with the value true
IsActiveTrue(p) ==
    \E n \in 1..Len(p.o) : p.o[n] = <<IsActiveKey, JBool(TRUE)>>

\* the records of the query response (list issues nothing after the query)
Fetched == net[Len(net)].records

\* C5: in list, once the filter step is done, processes is, with
\* --active-only, exactly the subsequence of the fetched records whose
\* IsActive is true, in the same order, and without the option the fetched
\* sequence unchanged.
C5_ActiveOnlySubsequence ==
    (cmd = "list" /\ processes # NoValue /\ pc \in {"output", "exited"}) =>
        processes.a = IF opts.active_only
                      THEN SelectSeq(Fetched, IsActiveTrue)
                      ELSE Fetched

C5_Witness ==
    /\ cmd = "list"
    /\ opts.active_only
    /\ pc = "output"
    /\ Len(Fetched) = 3
    /\ IsActiveTrue(Fetched[1])
    /\ ~IsActiveTrue(Fetched[2])
    /\ IsActiveTrue(Fetched[3])
    /\ processes.a = <<Fetched[1], Fetched[3]>>

\* C6: when list_omniscript_processes has returned to the list command,
\* exactly one query has been issued, with ORDER BY Name, VersionNumber
\* DESC, and the value returned is the record sequence of the response as
\* it came, hence ordered by Name ascending, then VersionNumber descending.
C6_ServerOrderKept ==
    (cmd = "list" /\ pc = "filter") =>
        /\ Cardinality(CallsOf({"query"})) = 1
        /\ net[Len(net)].kind = "query"
        /\ net[Len(net)].order_by = <<"Name", "VersionNumber DESC">>
        /\ processes = JArr(net[Len(net)].records)
        /\ Ordered(processes.a)

C6_Witness ==
    /\ cmd = "list"
    /\ pc = "filter"
    /\ Len(processes.a) = 3
    /\ Get(processes.a[1], NameKey, JNull) = Get(processes.a[2], NameKey, JNull)
    /\ Get(processes.a[1], VersionKey, JNull).n
           > Get(processes.a[2], VersionKey, JNull).n
    /\ Get(processes.a[2], NameKey, JNull) # Get(processes.a[3], NameKey, JNull)

\* the run wrote its JSON output to the file and ended
JsonFileWritten ==
    /\ pc = "exited"
    /\ exit_code = 0
    /\ ~Falsy(opts.output_path)
    /\ \/ cmd = "get" /\ LastReportIn({"structure_retrieved"})
       \/ cmd = "list" /\ opts.format = "json"
          /\ LastReportIn({"processes_retrieved"})

\* C7: whenever get, or list in json format, has written its output to the
\* file, the file is a text that parses as JSON to the structure that was
\* rendered: the fetched structure for get (pretty or compact), the
\* possibly filtered list of processes for list.
C7_FileRoundTrip ==
    JsonFileWritten =>
        /\ fs.kind = "text"
        /\ json_loads(fs.text).ok
        /\ json_loads(fs.text).val = IF cmd = "get" THEN structure
                                     ELSE processes

C7_Witness ==
    /\ JsonFileWritten
    /\ cmd = "get"
    /\ ~opts.pretty
    /\ structure.t = "obj"
    /\ Len(structure.o) = 2
    /\ structure.o[1][1] = <<"\\", "\"">>
    /\ structure.o[2][2] = JStr(<<"\"", "\\">>)
    /\ fs = TextFile(json_output)

\* C8: in get and list at most one authentication attempt and at most one
\* data request are issued (a discovery GET in get, a query in list, never
\* the other one), and nothing is issued after a call that failed.
C8_NoRetries ==
    cmd \in {"get", "list"} =>
        /\ Cardinality(CallsOf({"auth"})) <= 1
        /\ Cardinality(CallsOf({"get", "query"})) <= 1
        /\ CallsOf({"restful", "raw"}) = {}
        /\ cmd = "get" => CallsOf({"query"}) = {}
        /\ cmd = "list" => CallsOf({"get"}) = {}
        /\ \A i \in 1..Len(net) : Failed(net[i]) => i = Len(net)

C8_Witness ==
    /\ cmd = "get"
    /\ pc = "exited"
    /\ Len(net) = 2
    /\ net[1].kind = "auth"
    /\ net[2].kind = "get"
    /\ net[2].status = 500

\* C9 as stated: the credentials load_credentials returned are the values
\* of the variables of the selected instance, the domain is 'login' when
\* its variable is not provided, and all four fields are non-empty.
C9_FourNonEmptyFields ==
    credentials # NoCredentials =>
        /\ credentials.username = environ[instance].username_key
        /\ credentials.password = environ[instance].password_key
        /\ credentials.security_token = environ[instance].token_key
        /\ environ[instance].domain_key = None => credentials.domain = "login"
        /\ environ[instance].domain_key # None =>
               credentials.domain = environ[instance].domain_key
        /\ ~Falsy(credentials.username)
        /\ ~Falsy(credentials.password)
        /\ ~Falsy(credentials.security_token)
        /\ ~Falsy(credentials.domain)

\* position of an attempt of debug in the fixed list: the URL approaches
\* 1..4, then the header variations 1..3
AttemptRank(call) ==
    IF call.kind = "restful" THEN call.n ELSE NumApproaches + call.n

\* C10 as stated: debug makes its attempts one after the other in the
\* listed order, and once an attempt has returned status 200 no further
\* attempt is made, neither a URL approach nor a header variation.
C10_FirstSuccessWins ==
    cmd = "debug" =>
        LET attempts == CallsOf({"restful", "raw"})
        IN /\ \A i, j \in attempts :
                  i < j => AttemptRank(net[i]) < AttemptRank(net[j])
           /\ \A i \in attempts :
                  (~net[i].exc /\ net[i].status = 200) => i = Len(net)

\* a step that changes the file at the output path is taken by the output
\* step, after the .env check, the credentials, connect and the data
\* request have all succeeded
C11_Step ==
    /\ fs' # fs =>
          /\ pc = "output"
          /\ env_file
          /\ ~MissingRequired
          /\ sf = Session
          /\ SessionEstablishedBefore(Len(net) + 1)
          /\ CallsOf({"get", "query"}) # {}
          /\ \A i \in 1..Len(net) : ~Failed(net[i])
    /\ (pc \in {"start", "load", "connect", "fetch", "query"}
        /\ pc' = "exited") => fs' = fs

\* C11: in get and list the file at the output path is created or written
\* only by the output step, after the configuration check, authentication
\* and data retrieval have all succeeded; a run that ends at the .env
\* check, at credential loading, at connect or at the data request leaves
\* the file as it was.
C11_FileWrittenOnlyAfterSuccess == [][C11_Step]_vars

C11_Witness ==
    /\ cmd = "list"
    /\ opts.output_path = OutputPath
    /\ pc = "exited"
    /\ exit_code = 1
    /\ Len(net) = 2
    /\ net[2].kind = "query"
    /\ Failed(net[2])
    /\ fs = OldFile

\* list is past its filter step with an empty sequence of processes
C12_Inv ==
    (cmd = "list" /\ processes # NoValue /\ pc # "filter"
     /\ processes.a = <<>>) =>
        /\ pc = "exited"
        /\ exit_code = 0
        /\ json_output = NoValue
        /\ reports = <<Report("no_processes_found")>>
        /\ fs \in FilesBefore(opts)

C12_Step ==
    (pc = "filter" /\ processes'.a = <<>>) =>
        /\ pc' = "exited"
        /\ exit_code' = 0
        /\ fs' = fs
        /\ json_output' = json_output

\* C12: in list, when the sequence of processes is empty after the filter
\* step (the server returned none, or --active-only removed them all), the
\* command ends with exit status 0 at that step: nothing is rendered, no
\* output step runs and the file at the output path stays as it was, with
\* an output path given or not, in table and json format.
C12_EmptyListEndsWithoutOutput == []C12_Inv /\ [][C12_Step]_vars

C12_Witness ==
    /\ cmd = "list"
    /\ opts.active_only
    /\ opts.format = "json"
    /\ opts.output_path = OutputPath
    /\ processes = JArr(<<>>)
    /\ pc = "exited"
    /\ exit_code = 0
    /\ fs = OldFile
    /\ Len(net) = 2
    /\ Len(Fetched) = 2

(***************************************************************************)
(* The list command in table format over records whose Name, UniqueName    *)
(* and Id are around the lengths the table cuts at.                        *)
(***************************************************************************)
\* a text of n characters, no two neighbours alike
TextOfLen(n) == [i \in 1..n |-> Digits[(i % 10) + 1]]

TableRecord(n, u, i) ==
    JObj(<< <<IdKey, JStr(TextOfLen(i))>>,
            <<NameKey, JStr(TextOfLen(n))>>,
            <<UniqueNameKey, JStr(TextOfLen(u))>>,
            <<VersionKey, JNum(1)>>,
            <<IsActiveKey, JBool(TRUE)>> >>)

TableRecordPool ==
    {TableRecord(n, 27, 18) : n \in 22..MaxNameLen}
    \cup {TableRecord(22, u, 18) : u \in 27..MaxUniqueLen}
    \cup {TableRecord(22, 27, i) : i \in 17..MaxIdLen}

\* ORDER BY Name for these names, each a prefix of the longer ones
TableOrdered(recs) ==
    \A i, j \in 1..Len(recs) :
        i < j => Len(Get(recs[i], NameKey, JNull).s)
                     <= Len(Get(recs[j], NameKey, JNull).s)

TableQueryOutcomes ==
    { [exc |-> "none", records |-> r] :
        r \in { q \in UNION {[1..n -> TableRecordPool] : n \in 1..MaxRows} :
                  /\ \A i, j \in 1..Len(q) : i # j => q[i] # q[j]
                  /\ TableOrdered(q) } }

InitTable ==
    /\ cmd = "list"
    /\ instance = "DEFAULT"
    /\ opts \in [output_path : {OutputPath}, pretty : {TRUE},
                 active_only : BOOLEAN, format : {"table"},
                 raw_request : {FALSE}]
    /\ env_file = TRUE
    /\ environ \in {e \in Environs : MissingCreds(e, "DEFAULT") = <<>>}
    /\ fs \in FilesBefore(opts)
    /\ pc = "start"
    /\ credentials = NoCredentials
    /\ sf = NoSf
    /\ net = <<>>
    /\ structure = NoValue
    /\ processes = NoValue
    /\ json_output = NoValue
    /\ reports = <<>>
    /\ exit_code = Running
    /\ raised = None
    /\ attempt = 0
    /\ calls = 0

ListProcessesForTable ==
    /\ pc = "query"
    /\ list_omniscript_processes(TableQueryOutcomes, "filter")
    /\ UNCHANGED <<inputs, fs, credentials, sf, structure, json_output,
                   attempt, calls>>

NextTable ==
    \/ CheckEnvFile
    \/ LoadCredentials
    \/ Connect
    \/ ListProcessesForTable
    \/ ListFilter
    \/ ListOutput

SpecTable == InitTable /\ [][NextTable]_vars

\* the text of a field of a process
FieldText(p, key) == Get(p, key, JNull).s

\* text unchanged up to limit characters, else its first keep characters
\* followed by three dots
Shortened(text, limit, keep) ==
    IF Len(text) <= limit THEN text
    ELSE [i \in 1..(keep + 3) |-> IF i <= keep THEN text[i] ELSE "."]

\* C13: the table has one row per process, in the order of the processes;
\* in each row a Name of at most 23 characters is shown unchanged and a
\* longer one as its first 20 characters followed by '...', never more
\* than 23 characters; a UniqueName likewise with 28 and 25, never more
\* than 28; and the Id is its first 18 characters.
C13_TableCells ==
    fs.kind = "table" =>
        /\ Len(fs.rows) = Len(processes.a)
        /\ \A n \in 1..Len(processes.a) :
               LET p == processes.a[n]
                   row == fs.rows[n]
                   id == FieldText(p, IdKey)
               IN /\ row.name = Shortened(FieldText(p, NameKey), 23, 20)
                  /\ Len(row.name) <= 23
                  /\ row.unique_name
                         = Shortened(FieldText(p, UniqueNameKey), 28, 25)
                  /\ Len(row.unique_name) <= 28
                  /\ row.id = [i \in 1..(IF Len(id) < 18 THEN Len(id) ELSE 18)
                                   |-> id[i]]

C13_Witness ==
    /\ fs.kind = "table"
    /\ Len(processes.a) = 2
    /\ Len(FieldText(processes.a[1], NameKey)) = 23
    /\ Len(FieldText(processes.a[2], NameKey)) = 24
    /\ fs.rows[1].name = FieldText(processes.a[1], NameKey)
    /\ fs.rows[2].name # FieldText(processes.a[2], NameKey)
    /\ Len(fs.rows[2].name) = 23

====
